---------------------------- MODULE Spec2Model ----------------------------
(***************************************************************************)
(* A model of tt (src/tt.py), a personal time tracker: the `add`, `mark`,  *)
(* `hours` and `liststints` commands over an SQLite store of stints,       *)
(* marks and projects.                                                     *)
(*                                                                         *)
(* Instants are integers: minutes of UTC since 00:00 UTC of date 0.        *)
(* Calendar dates are integers (day numbers); a time of day is minutes     *)
(* since local midnight.  An optional command-line value is a sequence of  *)
(* length 0 (absent, Python's None) or 1 (given).  For --end_time the      *)
(* empty sequence stands for the default "now".                            *)
(***************************************************************************)
EXTENDS Integers, Sequences, FiniteSets, TLC

VARIABLES
    tz,        \* the system's local time zone (fixed for a behaviour)
    now,       \* the wall clock, a UTC instant
    ticks,     \* how many times the clock has advanced
    projects,  \* names in table project
    stints,    \* table stint, rows in id order: [start, end, mark]
    marks,     \* table mark: set of [id, when]
    nextMark,  \* next primary key of table mark
    last,      \* outcome of the most recent command
    pc,        \* position of each concurrent add invocation
    loc,       \* locals of each concurrent add invocation
    out        \* what the most recent hours or liststints command printed

vars ==
    <<tz, now, ticks, projects, stints, marks, nextMark, last, pc, loc, out>>

-----------------------------------------------------------------------------
(* Bounds of the model                                                     *)

MaxStints == 2
MaxMarks == 2
MaxTicks == 2
MaxDate == 1

(* Program constants                                                       *)

StaleStintMinutes == 120
\* Variant of StaleMarkMinutes: the threshold of the other guard.
StaleMarkAsStint == StaleStintMinutes
StaleMarkMinutes == 720
DayMinutes == 1440

-----------------------------------------------------------------------------
(* Inputs                                                                  *)

None == <<>>
Some(x) == <<x>>
IsNone(o) == o = <<>>
Val(o) == o[1]

Dates == 0..MaxDate
Times == {60, 1380}
Durations == {0, 120}
Flags == {"", "yes", "force"}
ProjectName == "tt"
OtherProject == "other"
ProjectNames == {ProjectName, OtherProject}
Opt(S) == {None} \cup {Some(x) : x \in S}

AllRequests ==
    {req : req \in
        [date : Dates, start_time : Opt(Times), end_time : Opt(Times),
         duration : Opt(Durations), since_last : Opt(Flags),
         since_mark : Opt(Flags), new_project : BOOLEAN,
         project : ProjectNames]}

\* How many of the four origin options a request gives.
Given(req) ==
      (IF req.start_time = None THEN 0 ELSE 1)
    + (IF req.duration = None THEN 0 ELSE 1)
    + (IF req.since_last = None THEN 0 ELSE 1)
    + (IF req.since_mark = None THEN 0 ELSE 1)

\* The requests the model issues: every request that gives one origin
\* option, and, for each other pattern of given and absent origin options,
\* the requests that give each of them its first value.  Project
\* OtherProject is only ever named, never created.
Requests ==
    {req \in AllRequests :
        /\ \/ Given(req) = 1
           \/ /\ req.start_time \in {None, Some(60)}
              /\ req.duration \in {None, Some(120)}
              /\ req.since_last \in {None, Some("yes")}
              /\ req.since_mark \in {None, Some("yes")}
        /\ \/ req.project = ProjectName
           \/ ~req.new_project /\ Given(req) = 1}

TickSteps == {StaleStintMinutes, StaleMarkMinutes}
Zones == {"spring", "fall"}

-----------------------------------------------------------------------------
(* Local time.  Zone "spring" is one hour east of UTC and moves its clocks *)
(* forward from 02:00 to 03:00 local on TransitionDate; zone "fall" is two *)
(* hours east and moves them back from 03:00 to 02:00 on that date.  On    *)
(* every other date a zone keeps one offset all day.                       *)

TransitionDate == MaxDate - 1

OldOffset(zone) == IF zone = "fall" THEN 120 ELSE 60
NewOffset(zone) == IF zone = "fall" THEN 60 ELSE 120

\* The offset the system zone gives a naive local date and time of day
\* (times the change skips or repeats take the offset before the change).
LocalOffset(zone, date, time) ==
    IF date * DayMinutes + time < TransitionDate * DayMinutes + 180
    THEN OldOffset(zone) ELSE NewOffset(zone)

\* The UTC instant at which zone changes its offset.
TransitionInstant(zone) ==
    TransitionDate * DayMinutes + (IF zone = "fall" THEN 180 ELSE 120)
        - OldOffset(zone)

\* The offset the system zone has at a UTC instant.
OffsetAt(zone, t) ==
    IF t < TransitionInstant(zone) THEN OldOffset(zone) ELSE NewOffset(zone)

combine_date_time(zone, date, time) ==
    date * DayMinutes + time - LocalOffset(zone, date, time)

\* Floor division by DayMinutes, also for negative local times.
FloorDay(t) == IF t >= 0 THEN t \div DayMinutes
               ELSE -((-t + DayMinutes - 1) \div DayMinutes)

\* Variant of today: the date of the clock in UTC.
today_utc(zone, t) == FloorDay(t)

today(zone, t) == FloorDay(t + OffsetAt(zone, t))

-----------------------------------------------------------------------------
(* Queries on the store                                                    *)

Rows(S) == {S[i] : i \in 1..Len(S)}

\* Variant of Completed: without the filter on end.
CompletedAnyEnd(S, t) == Rows(S)

\* The rows of table stint with end <= t.
Completed(S, t) == {s \in Rows(S) : s.end <= t}

\* get_latest_stint(session).end: None when the query's .first() is None
\* (the attribute access then raises), else the greatest end <= t.
get_latest_stint(S, t) ==
    IF Completed(S, t) = {} THEN None
    ELSE Some(CHOOSE e \in {s.end : s \in Completed(S, t)} :
                  \A s \in Completed(S, t) : s.end <= e)

\* Variant of get_latest_mark: ordered by `when` ascending.
get_oldest_mark(M, after) ==
    LET cand == {m \in M : m.when > after}
    IN  {m \in cand : \A o \in cand : o.when >= m.when}

\* get_latest_mark: the rows the query may return first, ordered by `when`
\* descending among those strictly after `after`; rows with equal `when`
\* come in an order the query does not fix.  Empty: "No marks available."
get_latest_mark(M, after) ==
    LET cand == {m \in M : m.when > after}
    IN  {m \in cand : \A o \in cand : o.when <= m.when}

get_project(P, name) == name \in P

-----------------------------------------------------------------------------
(* add, lines 184-237: the end instant, the check of the origin modes and  *)
(* the start instant, with the reading transactional scope of the          *)
(* since_last and since_mark branches.  t is the clock, S and M the        *)
(* tables as the scope reads them.  The result is a set: one record per    *)
(* row get_latest_mark may return.                                         *)

Truthy(o) == ~IsNone(o) /\ Val(o) # ""

\* Variant of ModeCount: since_mark left out of the sum.
ModeCountNoMark(req) ==
      (IF IsNone(req.since_last) THEN 0 ELSE 1)
    + (IF IsNone(req.duration) THEN 0 ELSE 1)
    + (IF IsNone(req.start_time) THEN 0 ELSE 1)

ModeCount(req) ==
      (IF IsNone(req.since_last) THEN 0 ELSE 1)
    + (IF IsNone(req.duration) THEN 0 ELSE 1)
    + (IF IsNone(req.start_time) THEN 0 ELSE 1)
    + (IF IsNone(req.since_mark) THEN 0 ELSE 1)

NoMark == [id |-> 0, when |-> 0]

Failure(status, mode) ==
    [status |-> status, mode |-> mode, stale |-> FALSE,
     start |-> 0, end |-> 0, mark |-> NoMark]

\* Variant of IsStale: the force value is not looked at.
IsStaleAnyFlag(age, limit, flag) == age > limit

\* The staleness guards (lines 212 and 229-232): flag is the value given to
\* --since_last or --since_mark.
IsStale(age, limit, flag) == age > limit /\ flag # "force"

end_dt(req, zone, t) ==
    IF IsNone(req.end_time) THEN t
    ELSE combine_date_time(zone, req.date, Val(req.end_time))

Resolve(req, zone, t, S, M) ==
    LET e == end_dt(req, zone, t)
        ls == get_latest_stint(S, t)
    IN
    IF IsNone(req.end_time) /\ req.date # today(zone, t)
    THEN {Failure("date_now", "none")}
    ELSE IF ModeCount(req) # 1
    THEN {Failure("modes", "none")}
    ELSE IF Truthy(req.since_last)
    THEN IF IsNone(ls) THEN {Failure("no_stint", "since_last")}
         ELSE IF IsStale(e - Val(ls), StaleStintMinutes, Val(req.since_last))
         THEN {[Failure("stale_stint", "since_last") EXCEPT !.stale = TRUE]}
         ELSE {[status |-> "ok", mode |-> "since_last",
                stale |-> e - Val(ls) > StaleStintMinutes,
                start |-> Val(ls), end |-> e, mark |-> NoMark]}
    ELSE IF ~IsNone(req.duration) /\ IsNone(req.start_time)
    THEN {[status |-> "ok", mode |-> "duration", stale |-> FALSE,
           start |-> e - Val(req.duration), end |-> e, mark |-> NoMark]}
    ELSE IF ~IsNone(req.start_time) /\ IsNone(req.duration)
    THEN {[status |-> "ok", mode |-> "start_time", stale |-> FALSE,
           start |-> combine_date_time(zone, req.date, Val(req.start_time)),
           end |-> e, mark |-> NoMark]}
    ELSE IF ~Truthy(req.since_mark)
    THEN {Failure("unreachable", "none")}
    ELSE IF IsNone(ls) THEN {Failure("no_stint", "since_mark")}
    ELSE IF get_latest_mark(M, Val(ls)) = {}
    THEN {Failure("no_mark", "since_mark")}
    ELSE {IF IsStale(t - m.when, StaleMarkMinutes, Val(req.since_mark))
          THEN [Failure("stale_mark", "since_mark") EXCEPT !.stale = TRUE]
          ELSE [status |-> "ok", mode |-> "since_mark",
                stale |-> t - m.when > StaleMarkMinutes,
                start |-> m.when, end |-> e, mark |-> m]
          : m \in get_latest_mark(M, Val(ls))}

(* add, lines 239-242: the scope that inserts the project.  Column name    *)
(* is unique: inserting a name the table holds fails the scope's commit.   *)
NewProjectScope(req, P) ==
    IF ~req.new_project THEN [ok |-> TRUE, projects |-> P]
    ELSE IF req.project \in P THEN [ok |-> FALSE, projects |-> P]
    ELSE [ok |-> TRUE, projects |-> P \cup {req.project}]

(* add, lines 245-258: the scope that inserts the stint and, in since_mark *)
(* mode, deletes the mark row read earlier (by its primary key; a row no   *)
(* longer there deletes nothing).  r is a successful record of Resolve.    *)
(* Field mark of a stint is not a column: it records the id of the mark    *)
(* the stint's start was taken from, 0 if none.                            *)
InsertStint(r, S) ==
    Append(S, [start |-> r.start, end |-> r.end, mark |-> r.mark.id])

\* Variant of DeleteMark: the mark row is kept.
KeepMark(req, r, M) == M

DeleteMark(req, r, M) ==
    IF Truthy(req.since_mark) THEN {m \in M : m.id # r.mark.id} ELSE M

\* Variant of FinalScope: the mark is deleted before the project is looked
\* up, and the failed lookup does not undo it.
FinalScopeDeleteFirst(req, r, P, S, M) ==
    IF ~get_project(P, req.project)
    THEN [ok |-> FALSE, stints |-> S, marks |-> DeleteMark(req, r, M)]
    ELSE [ok |-> TRUE, stints |-> InsertStint(r, S),
          marks |-> DeleteMark(req, r, M)]

FinalScope(req, r, P, S, M) ==
    IF ~get_project(P, req.project)
    THEN [ok |-> FALSE, stints |-> S, marks |-> M]
    ELSE [ok |-> TRUE, stints |-> InsertStint(r, S),
          marks |-> DeleteMark(req, r, M)]

(* The whole add command run alone: every way it can end on the tables     *)
(* P, S, M at clock t.                                                      *)
AddOutcomes(req, zone, t, P, S, M) ==
    {LET np == NewProjectScope(req, P)
         fs == FinalScope(req, r, np.projects, S, M)
     IN  IF r.status # "ok"
         THEN [res |-> r, projects |-> P, stints |-> S, marks |-> M]
         ELSE IF ~np.ok
         THEN [res |-> [r EXCEPT !.status = "dup_project"],
               projects |-> P, stints |-> S, marks |-> M]
         ELSE IF ~fs.ok
         THEN [res |-> [r EXCEPT !.status = "no_project"],
               projects |-> np.projects,
               stints |-> fs.stints, marks |-> fs.marks]
         ELSE [res |-> r, projects |-> np.projects,
               stints |-> fs.stints, marks |-> fs.marks]
     : r \in Resolve(req, zone, t, S, M)}

Outcome(cmd, r) ==
    [cmd |-> cmd, status |-> r.status, mode |-> r.mode, stale |-> r.stale]

-----------------------------------------------------------------------------
(* The commands, each run to completion.  A command reads the clock       *)
(* several times within milliseconds; the model gives it one reading.     *)
(* The store starts empty (create_all on a new database file).  A mark's   *)
(* id is never given to a later mark.                                      *)

Procs == {1, 2}
Idle == [p \in Procs |-> "idle"]
NoLocals == [p \in Procs |-> <<>>]

\* Nothing printed yet.
NoOutput == [cmd |-> "none", status |-> "ok", date |-> 0, minutes |-> 0,
             start_date |-> 0, end_date |-> 0, entries |-> <<>>,
             rows |-> <<>>]

Init ==
    /\ tz \in Zones
    /\ now = 8 * 60
    /\ ticks = 0
    /\ projects = {}
    /\ stints = <<>>
    /\ marks = {}
    /\ nextMark = 1
    /\ last = Outcome("none", Failure("ok", "none"))
    /\ pc = Idle
    /\ loc = NoLocals
    /\ out = NoOutput

Tick ==
    /\ ticks < MaxTicks
    /\ \E d \in TickSteps : now' = now + d
    /\ ticks' = ticks + 1
    /\ UNCHANGED <<tz, projects, stints, marks, nextMark, last, pc, loc, out>>

add(req) ==
    /\ Len(stints) < MaxStints
    /\ \E o \in AddOutcomes(req, tz, now, projects, stints, marks) :
          /\ projects' = o.projects
          /\ stints' = o.stints
          /\ marks' = o.marks
          /\ last' = Outcome("add", o.res)
    /\ UNCHANGED <<tz, now, ticks, nextMark, pc, loc, out>>

mark ==
    /\ nextMark <= MaxMarks
    /\ marks' = marks \cup {[id |-> nextMark, when |-> now]}
    /\ nextMark' = nextMark + 1
    /\ last' = Outcome("mark", Failure("ok", "none"))
    /\ UNCHANGED <<tz, now, ticks, projects, stints, pc, loc, out>>

Next ==
    \/ Tick
    \/ \E req \in Requests : add(req)
    \/ mark

Spec == Init /\ [][Next]_vars

-----------------------------------------------------------------------------
(* Two add invocations run as separate processes on one database file,     *)
(* interleaved at the granularity of their transactional scopes            *)
(* (session_scope commits on leaving the with block): the reading scope    *)
(* of lines 184-237, the project scope of 239-242, the final scope of      *)
(* 245-258.  Between the scopes a process holds the values it read.        *)

ConcRequests ==
    {req \in Requests :
        /\ req.project = ProjectName
        /\ req.end_time = None
        /\ req.start_time = None
        /\ req.since_last = None
        /\ \/ req.duration = Some(120) /\ req.since_mark = None
           \/ req.duration = None /\ req.since_mark = Some("yes")}

AddBegin(p, req) ==
    /\ pc[p] = "idle"
    /\ Len(stints) < MaxStints
    /\ \E r \in Resolve(req, tz, now, stints, marks) :
          /\ last' = Outcome("add", r)
          /\ IF r.status # "ok"
             THEN UNCHANGED <<pc, loc>>
             ELSE /\ pc' = [pc EXCEPT ![p] =
                               IF req.new_project THEN "project" ELSE "final"]
                  /\ loc' = [loc EXCEPT ![p] = <<req, r>>]
    /\ UNCHANGED <<tz, now, ticks, projects, stints, marks, nextMark, out>>

AddProject(p) ==
    /\ pc[p] = "project"
    /\ LET np == NewProjectScope(loc[p][1], projects)
       IN  /\ projects' = np.projects
           /\ IF np.ok
              THEN /\ pc' = [pc EXCEPT ![p] = "final"]
                   /\ UNCHANGED <<loc, last>>
              ELSE /\ pc' = [pc EXCEPT ![p] = "idle"]
                   /\ loc' = [loc EXCEPT ![p] = <<>>]
                   /\ last' = Outcome("add",
                                [loc[p][2] EXCEPT !.status = "dup_project"])
    /\ UNCHANGED <<tz, now, ticks, stints, marks, nextMark, out>>

AddFinal(p) ==
    /\ pc[p] = "final"
    /\ LET fs == FinalScope(loc[p][1], loc[p][2], projects, stints, marks)
       IN  /\ stints' = fs.stints
           /\ marks' = fs.marks
           /\ last' = Outcome("add",
                        IF fs.ok THEN loc[p][2]
                        ELSE [loc[p][2] EXCEPT !.status = "no_project"])
    /\ pc' = [pc EXCEPT ![p] = "idle"]
    /\ loc' = [loc EXCEPT ![p] = <<>>]
    /\ UNCHANGED <<tz, now, ticks, projects, nextMark, out>>

NextConc ==
    \/ Tick
    \/ mark
    \/ \E p \in Procs, req \in ConcRequests : AddBegin(p, req)
    \/ \E p \in Procs : AddProject(p)
    \/ \E p \in Procs : AddFinal(p)

SpecConc == Init /\ [][NextConc]_vars

-----------------------------------------------------------------------------
(* Aggregation.  Durations are in minutes; the program prints them         *)
(* divided by 60, as hours.                                                *)

Min(a, b) == IF a <= b THEN a ELSE b
Max(a, b) == IF a >= b THEN a ELSE b

date_limits(zone, date) ==
    LET earliest == combine_date_time(zone, date, 0)
    IN  [earliest |-> earliest, latest |-> earliest + DayMinutes]

\* Variant of Selected: every stint that overlaps the window.
SelectedOverlap(s, zone, date) ==
    LET w == date_limits(zone, date)
    IN  s.start < w.latest /\ s.end > w.earliest

\* The where clause of stints_by_date on one row.
Selected(s, zone, date) ==
    LET w == date_limits(zone, date)
    IN  \/ s.start > w.earliest /\ s.start < w.latest
        \/ s.end > w.earliest /\ s.end < w.latest

\* The ids (positions) of the rows stints_by_date returns.
stints_by_date(S, zone, date) ==
    {i \in 1..Len(S) : Selected(S[i], zone, date)}

\* One element of `durations` in hours_by_date.
Clipped(s, zone, date) ==
    LET w == date_limits(zone, date)
    IN  Min(w.latest, s.end) - Max(w.earliest, s.start)

RECURSIVE SumOver(_, _, _, _)
SumOver(I, S, zone, date) ==
    IF I = {} THEN 0
    ELSE LET i == CHOOSE j \in I : TRUE
         IN  Clipped(S[i], zone, date) + SumOver(I \ {i}, S, zone, date)

\* Variant of hours_by_date: only the stints that have ended by now.
hours_ended_by_date(S, zone, date) ==
    SumOver({i \in stints_by_date(S, zone, date) : S[i].end <= now},
            S, zone, date)

hours_by_date(S, zone, date) ==
    SumOver(stints_by_date(S, zone, date), S, zone, date)

\* The format .01f of the range report: hours to the nearest tenth, from
\* minutes.  (Every instant of the model is a multiple of 10 minutes, so no
\* total lies halfway between two tenths.)
Tenths(m) == IF m >= 0 THEN (m + 3) \div 6 ELSE -((-m + 3) \div 6)

\* Variant of date_range: the end date included.
date_range_closed(start, end) ==
    [n \in 1..Max(0, end - start + 1) |-> start + n - 1]

date_range(start, end) == [n \in 1..Max(0, end - start) |-> start + n - 1]

\* Local time of day (%H:%M) of an instant, in minutes since midnight.
HourMinute(zone, t) ==
    (t + OffsetAt(zone, t)) - FloorDay(t + OffsetAt(zone, t)) * DayMinutes

\* Variant of sorted_by_start: key=lambda stint: stint.end.
RECURSIVE sorted_by_end(_, _)
sorted_by_end(I, S) ==
    IF I = {} THEN <<>>
    ELSE LET i == CHOOSE j \in I :
                      \A k \in I : \/ S[j].end < S[k].end
                                   \/ S[j].end = S[k].end /\ j <= k
         IN  <<i>> \o sorted_by_end(I \ {i}, S)

\* sorted(rows, key=lambda stint: stint.start): stable, rows in id order.
RECURSIVE sorted_by_start(_, _)
sorted_by_start(I, S) ==
    IF I = {} THEN <<>>
    ELSE LET i == CHOOSE j \in I :
                      \A k \in I : \/ S[j].start < S[k].start
                                   \/ S[j].start = S[k].start /\ j <= k
         IN  <<i>> \o sorted_by_start(I \ {i}, S)

\* One printed line of liststints (id is the row it prints, not printed).
ListRow(i, S, zone) ==
    [id |-> i, start |-> HourMinute(zone, S[i].start),
     end |-> HourMinute(zone, S[i].end), dur |-> S[i].end - S[i].start]

-----------------------------------------------------------------------------
(* The reading commands, run on stores that add can build: each stint is   *)
(* what `add --date d --end_time t --duration n` inserts.                  *)

AggTimes == {0, 60, 800}
AggDurations == {20, 1440, 1560}
QueryDates == (-1)..(MaxDate + 1)
RangeDates == {-1, 0, MaxDate + 1}

AggStints(zone) ==
    {[start |-> combine_date_time(zone, d, t) - n,
      end |-> combine_date_time(zone, d, t), mark |-> 0] :
        d \in Dates, t \in AggTimes, n \in AggDurations}

AggStores(zone) ==
    UNION {[1..n -> AggStints(zone)] : n \in 0..MaxStints}

HoursRequests ==
    {h \in [date : Opt(QueryDates), start_date : Opt(RangeDates),
            end_date : Opt(RangeDates)] :
        \/ h.date = None
        \/ /\ h.start_date \in {None, Some(0)}
           /\ h.end_date \in {None, Some(MaxDate + 1)}}

InitAgg ==
    /\ tz \in Zones
    /\ now = 8 * 60
    /\ ticks = MaxTicks - 1
    /\ projects = {ProjectName}
    /\ stints \in AggStores(tz)
    /\ marks = {[id |-> 1, when |-> now]}
    /\ nextMark = 2
    /\ last = Outcome("none", Failure("ok", "none"))
    /\ pc = Idle
    /\ loc = NoLocals
    /\ out = NoOutput

hours(h) ==
    LET date == IF IsNone(h.date) THEN today(tz, now) ELSE Val(h.date)
        half == IsNone(h.start_date) # IsNone(h.end_date)
        both == date # today(tz, now) /\ ~IsNone(h.start_date)
    IN
    /\ out' =
          IF half \/ both
          THEN [NoOutput EXCEPT !.cmd = "hours", !.status = "error"]
          ELSE IF IsNone(h.start_date)
          THEN [NoOutput EXCEPT
                   !.cmd = "hours", !.status = "day", !.date = date,
                   !.minutes = hours_by_date(stints, tz, date)]
          ELSE LET dr == date_range(Val(h.start_date), Val(h.end_date))
               IN  [NoOutput EXCEPT
                       !.cmd = "hours", !.status = "range",
                       !.start_date = Val(h.start_date),
                       !.end_date = Val(h.end_date),
                       !.entries =
                           [n \in 1..Len(dr) |->
                               [date |-> dr[n],
                                tenths |-> Tenths(hours_by_date(
                                               stints, tz, dr[n]))]]]
    /\ last' = Outcome("hours",
                 Failure(IF half \/ both THEN "error" ELSE "ok", "none"))
    /\ UNCHANGED <<tz, now, ticks, projects, stints, marks, nextMark, pc, loc>>

liststints(d) ==
    LET date == IF IsNone(d) THEN today(tz, now) ELSE Val(d)
        order == sorted_by_start(stints_by_date(stints, tz, date), stints)
    IN
    /\ out' = [NoOutput EXCEPT
                  !.cmd = "liststints", !.status = "list", !.date = date,
                  !.rows = [n \in 1..Len(order) |->
                               ListRow(order[n], stints, tz)]]
    /\ last' = Outcome("liststints", Failure("ok", "none"))
    /\ UNCHANGED <<tz, now, ticks, projects, stints, marks, nextMark, pc, loc>>

NextAgg ==
    \/ Tick
    \/ \E h \in HoursRequests : hours(h)
    \/ \E d \in Opt(QueryDates) : liststints(d)

SpecAgg == InitAgg /\ [][NextAgg]_vars

-----------------------------------------------------------------------------
(* Vocabulary of the properties, stated from the store and the clock       *)
(* without the operators of add.                                           *)

\* Every way request req can end when run alone in the current state.
Outs(req) == AddOutcomes(req, tz, now, projects, stints, marks)

StoreKept(o) ==
    o.stints = stints /\ o.marks = marks /\ o.projects = projects

\* o appended exactly one stint.
Inserted(o) ==
    Len(o.stints) = Len(stints) + 1 /\ SubSeq(o.stints, 1, Len(stints)) = stints

NewStint(o) == o.stints[Len(o.stints)]

\* Local midnight beginning date d, as a UTC instant.
LocalMidnight(d) ==
    d * DayMinutes - (IF d <= TransitionDate THEN OldOffset(tz) ELSE NewOffset(tz))

\* The local calendar date of the clock.
LocalToday ==
    CHOOSE d \in -1..(MaxDate + 3) :
        LocalMidnight(d) <= now /\ now < LocalMidnight(d + 1)

\* The requested end instant.
RequestedEnd(req) ==
    IF req.end_time = None THEN now
    ELSE req.date * DayMinutes + Val(req.end_time)
           - (IF req.date < TransitionDate
                 \/ (req.date = TransitionDate /\ Val(req.end_time) < 180)
              THEN OldOffset(tz) ELSE NewOffset(tz))

\* The requests in since_last mode, in since_mark mode, with a number of
\* origin options other than one, and with end = "now".
SinceLastRequests ==
    {req \in Requests :
        Given(req) = 1 /\ req.since_last \in {Some("yes"), Some("force")}}

SinceMarkRequests ==
    {req \in Requests :
        Given(req) = 1 /\ req.since_mark \in {Some("yes"), Some("force")}}

BadModeRequests == {req \in Requests : Given(req) # 1}

EndNowRequests == {req \in Requests : req.end_time = None}

\* The project lookup of the final scope will succeed.
ProjectAvailable(req) == req.new_project <=> req.project \notin projects

CompletedEnds ==
    {stints[i].end : i \in {j \in 1..Len(stints) : stints[j].end <= now}}

\* The end of the latest completed stint (CompletedEnds is not empty).
PredecessorEnd == CHOOSE e \in CompletedEnds : \A f \in CompletedEnds : f <= e

QualifyingMarks ==
    IF CompletedEnds = {} THEN {} ELSE {m \in marks : m.when > PredecessorEnd}

\* The greatest `when` among the qualifying marks (there is one).
LatestMarkWhen ==
    CHOOSE w \in {m.when : m \in QualifyingMarks} :
        \A m \in QualifyingMarks : m.when <= w

ConsumedIds == {stints[i].mark : i \in 1..Len(stints)} \ {0}

-----------------------------------------------------------------------------
\* C1: every stint in the store satisfies start < end (an add whose
\* resolved start is not strictly before its resolved end inserts nothing).
C1_StartBeforeEnd ==
    \A i \in 1..Len(stints) : stints[i].start < stints[i].end

\* C2: a mark used as the start of a stint is gone from the store in every
\* later state and no since_mark resolution returns it again; no two stints
\* took their start from the same mark; and a mark leaves the store only in
\* the step that appends the stint whose start is that mark's `when`.
C2_Inv ==
    /\ \A m \in marks : m.id \notin ConsumedIds
    /\ \A req \in SinceMarkRequests :
          \A r \in Resolve(req, tz, now, stints, marks) :
              r.status = "ok" => r.mark.id \notin ConsumedIds
    /\ \A i, j \in 1..Len(stints) :
          i # j /\ stints[i].mark # 0 => stints[i].mark # stints[j].mark

C2_Step ==
    \A m \in marks :
        m \notin marks' =>
            /\ Len(stints') = Len(stints) + 1
            /\ stints'[Len(stints')].mark = m.id
            /\ stints'[Len(stints')].start = m.when
            /\ last'.status = "ok" /\ last'.mode = "since_mark"

C2_MarkSingleUse == [](C2_Inv) /\ [][C2_Step]_vars

\* A since_mark add has consumed a mark, and a mark made after it is the one
\* a since_mark resolution now returns.
C2_Witness ==
    /\ ConsumedIds # {}
    /\ last.cmd = "mark"
    /\ QualifyingMarks # {}

\* C3: with two since_mark adds interleaved at the granularity of their
\* transactional scopes, at most one stint takes its start from a given mark.
C3_NoDoubleConsumption ==
    \A i, j \in 1..Len(stints) :
        i < j /\ stints[i].mark # 0 => stints[j].mark # stints[i].mark

\* C4: a request that gives 0 or at least 2 origin options fails with a
\* configuration error whatever its other inputs, inserts no stint and
\* deletes no mark.
C4_ModeCountError ==
    LET td == LocalToday
    IN  \A req \in BadModeRequests : \A o \in Outs(req) :
            /\ o.res.status \in {"modes", "date_now"}
            /\ req.end_time # None \/ req.date = td => o.res.status = "modes"
            /\ StoreKept(o)

\* An add has just failed on the number of origin modes.
C4_Witness == last.cmd = "add" /\ last.status = "modes" /\ Len(stints) > 0

\* C5: a since_last add that succeeds appends a stint whose start is the
\* greatest end among the stored stints with end <= now; when no stored
\* stint has end <= now it fails and inserts nothing.
C5_SinceLastStart ==
    LET none == CompletedEnds = {}
    IN  \A req \in SinceLastRequests : \A o \in Outs(req) :
            /\ o.res.status = "ok" =>
                   /\ ~none
                   /\ Inserted(o)
                   /\ NewStint(o).start = PredecessorEnd
            /\ none => o.res.status # "ok" /\ StoreKept(o)

\* A since_last add has just appended a stint that starts where an earlier
\* stint ends.
C5_Witness ==
    /\ last.cmd = "add" /\ last.mode = "since_last" /\ last.status = "ok"
    /\ Len(stints) = 2 /\ stints[2].start = stints[1].end

\* C6: in since_last mode with a predecessor, a gap (requested end minus
\* predecessor end) over 2 hours fails the add with a staleness error and
\* changes nothing unless force is given; with force and a project the add
\* succeeds with start = predecessor end; a gap of at most 2 hours never
\* fails on staleness.  (Requests with end = "now" are for today.)
C6_StintStaleness ==
    CompletedEnds # {} =>
    LET pe == PredecessorEnd
        td == LocalToday
    IN  \A req \in SinceLastRequests :
            (req.end_time = None => req.date = td) =>
            \A o \in Outs(req) :
                LET gap == RequestedEnd(req) - pe
                    force == req.since_last = Some("force")
                IN  /\ gap > 120 /\ ~force =>
                           o.res.status = "stale_stint" /\ StoreKept(o)
                    /\ gap > 120 /\ force /\ ProjectAvailable(req) =>
                           /\ o.res.status = "ok"
                           /\ Inserted(o)
                           /\ NewStint(o).start = pe
                           /\ NewStint(o).end = RequestedEnd(req)
                    /\ gap <= 120 => o.res.status # "stale_stint"
                    /\ gap <= 120 /\ ProjectAvailable(req) =>
                           o.res.status = "ok"

\* A forced since_last add has just succeeded over a gap of more than 2 hours.
C6_Witness ==
    /\ last.cmd = "add" /\ last.mode = "since_last" /\ last.status = "ok"
    /\ last.stale
    /\ stints[Len(stints)].end - stints[Len(stints)].start > 120

\* C7: a since_mark add that succeeds appends a stint whose start is the
\* greatest `when` among the stored marks strictly after the end of the
\* latest completed stint; with no completed stint or no such mark it fails,
\* inserts nothing and deletes no mark.
C7_SinceMarkStart ==
    LET none == QualifyingMarks = {}
    IN  \A req \in SinceMarkRequests : \A o \in Outs(req) :
            /\ o.res.status = "ok" =>
                   /\ ~none
                   /\ Inserted(o)
                   /\ NewStint(o).start = LatestMarkWhen
            /\ none => o.res.status # "ok" /\ StoreKept(o)

\* A since_mark add has just appended a stint that starts at a mark made
\* after the end of the earlier stint.
C7_Witness ==
    /\ last.cmd = "add" /\ last.mode = "since_mark" /\ last.status = "ok"
    /\ Len(stints) = 2 /\ stints[2].mark # 0 /\ stints[2].start > stints[1].end

\* C8: in since_mark mode the staleness guard compares now minus the
\* mark's `when` with 12 hours, whatever the requested end: over 12 hours
\* without force the add fails with a staleness error, inserts nothing and
\* keeps the mark; with force it proceeds with start = mark.when; at 12
\* hours or less the guard does not fail the add.  (Requests with
\* end = "now" are for today.)
C8_MarkStaleness ==
    QualifyingMarks # {} =>
    LET mw == LatestMarkWhen
        td == LocalToday
    IN  \A req \in SinceMarkRequests :
            (req.end_time = None => req.date = td) =>
            \A o \in Outs(req) :
                LET age == now - mw
                    force == req.since_mark = Some("force")
                IN  /\ age > 720 /\ ~force =>
                           o.res.status = "stale_mark" /\ StoreKept(o)
                    /\ age > 720 /\ force /\ ProjectAvailable(req) =>
                           /\ o.res.status = "ok"
                           /\ Inserted(o)
                           /\ NewStint(o).start = mw
                    /\ age <= 720 => o.res.status # "stale_mark"
                    /\ age <= 720 /\ ProjectAvailable(req) => o.res.status = "ok"

\* A forced since_mark add has just succeeded on a mark older than 12 hours.
C8_Witness ==
    /\ last.cmd = "add" /\ last.mode = "since_mark" /\ last.status = "ok"
    /\ last.stale
    /\ now - stints[Len(stints)].start > 720

\* C9: a request with end = "now" and a date that is not today fails in
\* every origin mode and leaves stints, marks and projects unchanged.
C9_NowNeedsToday ==
    LET td == LocalToday
    IN  \A req \in EndNowRequests :
            req.date # td =>
                \A o \in Outs(req) : o.res.status = "date_now" /\ StoreKept(o)

\* An add with end = "now" and another date has just failed, with a stint
\* in the store.
C9_Witness == last.cmd = "add" /\ last.status = "date_now" /\ Len(stints) > 0

\* C10: a stint with start < end that starts inside local day D and ends
\* inside local day D+1, shorter than 24 hours, contributes latest(D) - start
\* to D and end - earliest(D+1) to D+1, which sum to end - start, and
\* contributes nothing to any other day.
Contribution(s, date) ==
    IF Selected(s, tz, date) THEN Clipped(s, tz, date) ELSE 0

C10_DaySplit ==
    \A i \in 1..Len(stints) : \A D \in QueryDates :
        LET s == stints[i]
        IN  (/\ s.start < s.end
             /\ s.end - s.start < DayMinutes
             /\ LocalMidnight(D) <= s.start /\ s.start < LocalMidnight(D + 1)
             /\ LocalMidnight(D + 1) <= s.end /\ s.end < LocalMidnight(D + 2))
            => /\ Contribution(s, D) = date_limits(tz, D).latest - s.start
               /\ Contribution(s, D + 1) = s.end - date_limits(tz, D + 1).earliest
               /\ Contribution(s, D) + Contribution(s, D + 1) = s.end - s.start
               /\ \A d \in QueryDates \ {D, D + 1} : Contribution(s, d) = 0

-----------------------------------------------------------------------------
(* Vocabulary of the properties of the reading commands.                   *)

earliest(D) == date_limits(tz, D).earliest
latest(D) == date_limits(tz, D).latest

\* Instant t lies in the half-open window of date D.
InWindow(t, D) == earliest(D) <= t /\ t < latest(D)

\* The rows printed by the listing in out, as positions in table stint.
ListedIds == {out.rows[n].id : n \in 1..Len(out.rows)}

\* The sum of end - start over the first n rows of table stint.
RECURSIVE TotalDuration(_)
TotalDuration(n) ==
    IF n = 0 THEN 0
    ELSE (stints[n].end - stints[n].start) + TotalDuration(n - 1)

\* Table stint without row i.
Without(i) == SubSeq(stints, 1, i - 1) \o SubSeq(stints, i + 1, Len(stints))

\* The stored stints with start or end in the half-open window of date D.
HalfOpenSelected(D) ==
    {i \in 1..Len(stints) :
        InWindow(stints[i].start, D) \/ InWindow(stints[i].end, D)}

\* C11: a stored stint is selected for a date (by the day total and by the
\* listing) if and only if its start or its end lies in the half-open window
\* [earliest, latest) of the date; a start exactly at earliest selects it.
\* The listing prints exactly those stints and the day total is the sum of
\* their clipped durations.
C11_HalfOpenSelection ==
    /\ out.status = "list" => ListedIds = HalfOpenSelected(out.date)
    /\ out.status = "day" =>
          out.minutes =
              SumOver(HalfOpenSelected(out.date), stints, tz, out.date)

\* C12: when every stored stint lies within the window of date D
\* (earliest <= start < end <= latest), the day total of D is the sum of
\* end - start over all stored stints.
C12_FullDurations ==
    (/\ out.status = "day"
     /\ \A i \in 1..Len(stints) :
           /\ earliest(out.date) <= stints[i].start
           /\ stints[i].start < stints[i].end
           /\ stints[i].end <= latest(out.date))
    => out.minutes = TotalDuration(Len(stints))

\* C13 as claimed: a range report has one entry for each date d with
\* start_date <= d < end_date, in ascending consecutive order (none when
\* end_date <= start_date), and each entry's hours equal the day total of
\* its date (tenths / 10 = minutes / 60).
C13_RangeExact ==
    out.status = "range" =>
        /\ Len(out.entries) = Max(0, out.end_date - out.start_date)
        /\ \A n \in 1..Len(out.entries) :
              /\ out.entries[n].date = out.start_date + n - 1
              /\ out.entries[n].tenths * 6 =
                     hours_by_date(stints, tz, out.entries[n].date)

\* C13 as amended: the same, with each entry's hours the day total of its
\* date to one decimal place (within 0.05 hours of it), 0.0 on a day
\* without stints.
C13_RangeRounded ==
    out.status = "range" =>
        /\ Len(out.entries) = Max(0, out.end_date - out.start_date)
        /\ \A n \in 1..Len(out.entries) :
              LET e == out.entries[n]
                  m == hours_by_date(stints, tz, e.date)
              IN  /\ e.date = out.start_date + n - 1
                  /\ out.start_date <= e.date /\ e.date < out.end_date
                  /\ e.tenths * 6 - 3 <= m /\ m <= e.tenths * 6 + 3
                  /\ stints_by_date(stints, tz, e.date) = {} => e.tenths = 0

\* A range report of three days over a store with stints, with one total
\* that is not a whole number of tenths and one day without stints.
C13_Witness ==
    /\ out.status = "range" /\ Len(out.entries) = 3
    /\ \E n \in 1..3 :
          out.entries[n].tenths * 6 #
              hours_by_date(stints, tz, out.entries[n].date)
    /\ \E n \in 1..3 : stints_by_date(stints, tz, out.entries[n].date) = {}

-----------------------------------------------------------------------------
\* Every mark made so far: those in the store and those consumed by a stint.
EverMarks ==
    marks \cup {[id |-> stints[i].mark, when |-> stints[i].start] :
                   i \in {j \in 1..Len(stints) : stints[j].mark # 0}}

\* A newer mark was made after mark m.
Superseded(m) == \E n \in EverMarks : n.when > m.when

\* Request req, run now, can append a stint that starts from mark m.
CanUse(req, m) ==
    \E o \in Outs(req) :
        o.res.status = "ok" /\ Inserted(o) /\ NewStint(o).mark = m.id

\* C14 as claimed: a mark that a newer mark has superseded is never used as
\* the start of a stint, also after the newer mark has been consumed (here
\* for the stores in which every stint has start < end).
C14_OrphanedForever ==
    (\A i \in 1..Len(stints) : stints[i].start < stints[i].end) =>
        \A m \in marks :
            Superseded(m) => \A req \in SinceMarkRequests : ~CanUse(req, m)

\* C14 as amended: the superseded mark is not used while a newer mark is in
\* the store, nor after the newer mark was consumed by a stint that has
\* ended (end <= now) at or after the older mark's `when`.
C14_Orphaned ==
    \A m \in marks :
        (\/ \E n \in marks : n.when > m.when
         \/ \E i \in 1..Len(stints) :
               /\ stints[i].mark # 0 /\ stints[i].start > m.when
               /\ stints[i].end <= now /\ stints[i].end >= m.when)
        => \A req \in SinceMarkRequests : ~CanUse(req, m)

\* The newer of two marks has been consumed by a since_mark add ending now,
\* and the older mark is still in the store.
C14_Witness ==
    /\ last.cmd = "add" /\ last.mode = "since_mark" /\ last.status = "ok"
    /\ \E m \in marks :
          stints[Len(stints)].start > m.when /\ stints[Len(stints)].end = now

\* C15: an add that fails, for whatever reason, leaves tables stint and mark
\* as they were, a failed since_mark add keeps the mark it read; an add that
\* succeeds appends one stint and deletes the mark it started from, if any,
\* and no other; so no stored mark is the start of a stored stint and every
\* mark made is either stored or was consumed by a stint.
C15_Inv ==
    /\ \A m \in marks : m.id \notin ConsumedIds
    /\ \A id \in 1..(nextMark - 1) :
          id \in ConsumedIds \/ \E m \in marks : m.id = id

\* A step of add: the last command is an add and the clock has not moved.
C15_Step ==
    last'.cmd = "add" /\ now' = now =>
        /\ last'.status # "ok" => stints' = stints /\ marks' = marks
        /\ last'.status = "ok" =>
              /\ Len(stints') = Len(stints) + 1
              /\ SubSeq(stints', 1, Len(stints)) = stints
              /\ IF stints'[Len(stints')].mark = 0 THEN marks' = marks
                 ELSE \E m \in marks :
                         /\ m.id = stints'[Len(stints')].mark
                         /\ marks' = marks \ {m}

C15_FailureAtomicity == [](C15_Inv) /\ [][C15_Step]_vars

\* A since_mark add has just failed on an unknown project after it read a
\* mark, and the mark is in the store.
C15_Witness ==
    /\ last.cmd = "add" /\ last.mode = "since_mark"
    /\ last.status = "no_project"
    /\ QualifyingMarks # {}

-----------------------------------------------------------------------------
\* Stint i starts before the window of date D and ends after it.
Spans(i, D) == stints[i].start < earliest(D) /\ stints[i].end > latest(D)

\* C16: a stint that starts before earliest and ends after latest of a date
\* is not selected for the date and adds nothing to its day total: the
\* listing does not print it and the total is that of the store without it.
C16_SpanningExcluded ==
    \A i \in 1..Len(stints) :
        /\ \A D \in QueryDates :
              Spans(i, D) =>
                  /\ i \notin stints_by_date(stints, tz, D)
                  /\ hours_by_date(stints, tz, D) =
                         hours_by_date(Without(i), tz, D)
        /\ out.status = "list" /\ Spans(i, out.date) => i \notin ListedIds
        /\ out.status = "day" /\ Spans(i, out.date) =>
              out.minutes = hours_by_date(Without(i), tz, out.date)

\* hours has printed 0 for a date that the only stored stint spans.
C16_Witness ==
    /\ out.status = "day" /\ out.minutes = 0
    /\ Len(stints) = 1 /\ Spans(1, out.date)

\* C17: the stints the listing prints for a date are each printed once, are
\* exactly the stints whose clipped durations make the day total of the
\* date, and come in non-decreasing order of start.
C17_ListingMatchesTotal ==
    out.status = "list" =>
        /\ \A n, k \in 1..Len(out.rows) :
              n < k =>
                  /\ out.rows[n].id # out.rows[k].id
                  /\ stints[out.rows[n].id].start <= stints[out.rows[k].id].start
        /\ ListedIds = stints_by_date(stints, tz, out.date)
        /\ hours_by_date(stints, tz, out.date) =
               SumOver(ListedIds, stints, tz, out.date)

\* The listing has printed two stints, the later stored one first.
C17_Witness ==
    /\ out.status = "list" /\ Len(out.rows) = 2
    /\ out.rows[1].id = 2 /\ out.rows[2].id = 1
    /\ stints[2].start < stints[1].start

\* C18: hours and liststints leave tables stint, mark and project as they
\* were, and two day totals for the same date with no add or mark between
\* them are equal, whatever the clock.
C18_Step ==
    /\ last'.cmd \in {"hours", "liststints"} =>
          stints' = stints /\ marks' = marks /\ projects' = projects
    /\ out.status = "day" /\ out'.status = "day" /\ out'.date = out.date =>
          out'.minutes = out.minutes

C18_ReadOnly == [][C18_Step]_vars

\* hours has printed a positive day total after the clock has advanced,
\* with a mark in the store.
C18_Witness ==
    /\ out.status = "day" /\ out.minutes > 0
    /\ ticks = MaxTicks /\ marks # {}

-----------------------------------------------------------------------------
\* C19: the window of a date D that hours or liststints has used runs from
\* local midnight beginning D to local midnight beginning D + 1, so it ends
\* where the window of D + 1 begins, and it is 23 or 25 hours long on the
\* date the local offset changes and 24 hours long on any other.
C19_MidnightToMidnight ==
    out.status \in {"day", "list"} =>
        LET D == out.date
        IN  /\ earliest(D) = LocalMidnight(D)
            /\ latest(D) = LocalMidnight(D + 1)
            /\ latest(D) = earliest(D + 1)
            /\ latest(D) - earliest(D) =
                   IF D = TransitionDate
                   THEN DayMinutes + OldOffset(tz) - NewOffset(tz)
                   ELSE DayMinutes

\* C20: in every store that add and mark commands build, the day total of
\* every date is non-negative and no selected stint has a negative clipped
\* duration.
C20_NonNegativeHours ==
    \A D \in QueryDates :
        /\ hours_by_date(stints, tz, D) >= 0
        /\ \A i \in stints_by_date(stints, tz, D) :
              Min(latest(D), stints[i].end)
                  - Max(earliest(D), stints[i].start) >= 0

=============================================================================
